---- MODULE Spec2Model ----
(***************************************************************************)
(* Model of gaming_news_scraper.py: the listing extraction                 *)
(* (fetch_gaming_news), the quota crawl (get_unique_news), the history     *)
(* store (NewsHistory), the detail enrichment (fetch_article_details),     *)
(* the versioned materialization (save_content) and the run (main).        *)
(*                                                                         *)
(* Strings are sequences of tokens (a token stands for a run of            *)
(* characters); Python's None is the one-token string None.                *)
(***************************************************************************)
EXTENDS Integers, Sequences, FiniteSets, TLC

VARIABLES
    articles,        \* fetch_gaming_news: the article fragments found on the page
    news_list,       \* fetch_gaming_news: the records it returned
    xpc,             \* fetch_gaming_news (alone): "ready" | "returned"
    listing,         \* the site: listing page number -> article fragments
    homepage,        \* the site: the (title, href) links of the home page
    detail_page,     \* the site: what an article's detail page holds
    history_file,    \* news_history.json: Absent | Corrupt | Json(ids)
    news_ids,        \* NewsHistory.news_ids of the running process
    limit,           \* NewsHistory.limit (config history_limit)
    news_count,      \* config news_count, the target of get_unique_news
    dirs,            \* version numbers v whose content directory exists (0: <date>, k: <date>_Vk)
    written,         \* directories save_content wrote its files into, in call order
    pc,              \* position of the run
    run,             \* number of runs started
    max_runs,        \* number of runs the behaviour takes
    current_page,    \* get_unique_news: current_page
    new_news,        \* get_unique_news / main: new_news
    duplicate_news,  \* get_unique_news: duplicate_news
    detailed_news,   \* main: detailed_news
    rc,              \* main: exit code of the last finished run (-1: none yet)
    events,          \* get_unique_news: its page fetches and sleeps, in order
    scanned,         \* get_unique_news: what each fetch_gaming_news call returned, in order
    loaded,          \* the set _load_history returned to this run
    added,           \* ids add_item put into news_ids since the load
    mode,            \* main: how new_news was obtained: "none" | "new" | "homepage" | "duplicates"
    prev,            \* the previous run's crawl: what it loaded, found and saw
    ops              \* NewsHistory (alone): number of operations applied

extractVars == <<articles, news_list, xpc>>
siteVars == <<listing, homepage, detail_page>>
configVars == <<limit, news_count, max_runs>>
crawlVars == <<current_page, new_news, duplicate_news, events, scanned>>

vars == <<articles, news_list, xpc, listing, homepage, detail_page, history_file, news_ids,
          limit, news_count, max_runs, dirs, written, pc, run, current_page, new_news,
          duplicate_news, detailed_news, rc, events, scanned, loaded, added, mode, prev, ops>>

-----------------------------------------------------------------------------
(* Bounds of the model *)

MaxChain == 2       \* locators modelled per selector chain
MaxArticles == 2    \* fragments on the page handed to fetch_gaming_news alone
MaxListing == 3     \* fragments on the whole listing (pages 1..max_pages), crawl alone
MaxSite == 2        \* fragments on the whole listing, whole runs
MaxTarget == 2      \* largest news_count
MaxLimit == 2       \* largest history_limit
MaxOps == 3         \* operations on a NewsHistory, calls of save_content, taken alone
MaxVersion == 2     \* largest version of a content directory that exists at the start

(* Program constants *)

max_pages == 5

-----------------------------------------------------------------------------
(* Strings *)

None == <<"<None>">>
Empty == <<>>
BASE_URL == <<"https://", "vandal.elespanol.com">>
SinResumen == <<"Sin resumen disponible">>

Truthy(s) == s # None /\ s # Empty

\* str.startswith(('http://', 'https://'))
StartsWithHttp(s) == Len(s) > 0 /\ s[1] \in {"http://", "https://"}

\* value.split(' ')[0] if ' ' in value else value
RECURSIVE FirstToken(_)
FirstToken(s) ==
    IF s = Empty THEN Empty
    ELSE IF Head(s) = " " THEN Empty
    ELSE <<Head(s)>> \o FirstToken(Tail(s))

\* link = f"{BASE_URL}{link}" when link is non-empty and not absolute
Absolutize(s) == IF Truthy(s) /\ ~StartsWithHttp(s) THEN BASE_URL \o s ELSE s

\* hashlib.md5(f"{title}|{link}".encode('utf-8')).hexdigest(): an injective
\* image of the digested byte string
md5(content) == <<"md5">> \o content

-----------------------------------------------------------------------------
(* NewsItem *)

NewsItem(title, summary, link, image_url, author, published_date) ==
    [title |-> title, summary |-> summary, link |-> link, image_url |-> image_url,
     author |-> author, published_date |-> published_date,
     news_id |-> md5(title \o <<"|">> \o link)]

-----------------------------------------------------------------------------
(* fetch_gaming_news: extraction of one article fragment *)

\* An element a locator matched, or NoTag when select_one returned None.
\* attrs: the values of 'src', 'data-src', 'data-lazy-src', 'data-srcset',
\* None for an attribute the element does not have.
Tag(text, href, attrs) == [matched |-> TRUE, text |-> text, href |-> href, attrs |-> attrs]
NoTag == [matched |-> FALSE, text |-> Empty, href |-> None, attrs |-> <<>>]

\* for selector in selectors: tag = article.select_one(selector); if tag: break
\* chain[i] is what select_one returns for the i-th selector
\* Variant: a locator whose element has empty text is passed over
RECURSIVE select_first_nonempty(_)
select_first_nonempty(chain) ==
    IF chain = <<>> THEN NoTag
    ELSE IF Head(chain).matched /\ Head(chain).text # Empty THEN Head(chain)
    ELSE select_first_nonempty(Tail(chain))

RECURSIVE select_first(_)
select_first(chain) ==
    IF chain = <<>> THEN NoTag
    ELSE IF Head(chain).matched THEN Head(chain)
    ELSE select_first(Tail(chain))

\* for attr in ['src', ...]: if attr in image_tag.attrs: image_url = ...; break
RECURSIVE first_attr(_)
first_attr(attrs) ==
    IF attrs = <<>> THEN None
    ELSE IF Head(attrs) # None THEN FirstToken(Head(attrs))
    ELSE first_attr(Tail(attrs))

\* get_text(strip=True) of the chain's tag, or the default when no locator matched
text_of(chain, default) ==
    LET tag == select_first(chain) IN IF tag.matched THEN tag.text ELSE default

\* The body of `for article in articles`: the records (none or one) it appends.
\* Variant: the test `if title and link` of line 293 left out
extract_article_keep_all(article) ==
    IF article.raises THEN <<>>
    ELSE
    LET title_tag == select_first(article.title) IN
    IF ~title_tag.matched THEN <<>>
    ELSE
    LET href == IF title_tag.href # None THEN title_tag.href ELSE Empty
        image_tag == select_first(article.image)
    IN  <<NewsItem(title_tag.text, text_of(article.summary, SinResumen), Absolutize(href),
                   IF image_tag.matched THEN Absolutize(first_attr(image_tag.attrs)) ELSE None,
                   text_of(article.author, None), text_of(article.date, None))>>

extract_article(article) ==
    IF article.raises THEN <<>>
    ELSE
    LET title_tag == select_first(article.title) IN
    IF ~title_tag.matched THEN <<>>
    ELSE
    LET title == title_tag.text
        summary == text_of(article.summary, SinResumen)
        href == IF title_tag.href # None THEN title_tag.href ELSE Empty
        link == Absolutize(href)
        image_tag == select_first(article.image)
        image_url == IF image_tag.matched THEN Absolutize(first_attr(image_tag.attrs)) ELSE None
        author == text_of(article.author, None)
        published_date == text_of(article.date, None)
    IN  IF title # Empty /\ link # Empty
        THEN <<NewsItem(title, summary, link, image_url, author, published_date)>>
        ELSE <<>>

\* for article in articles: ... news_list.append(news_item)
RECURSIVE parse_articles(_)
parse_articles(arts) ==
    IF arts = <<>> THEN <<>>
    ELSE extract_article(Head(arts)) \o parse_articles(Tail(arts))

\* fetch_gaming_news(page): [] when the request or the parse of the page fails or
\* no article block is found, else the records of the fragments in page order
fetch_gaming_news(ok, arts) == IF ok THEN parse_articles(arts) ELSE <<>>

-----------------------------------------------------------------------------
(* Article fragments the model draws from *)

NoAttrs == <<None, None, None, None>>
TextTag(text) == Tag(text, None, NoAttrs)
RelLink == <<"/noticia/n1">>
AbsLink == <<"http://", "x.com/noticia/n2">>

Chains(tags) == [1..MaxChain -> tags]
One(tag) == [i \in 1..MaxChain |-> IF i = 1 THEN tag ELSE NoTag]

TitleTags ==
    {NoTag, Tag(Empty, RelLink, NoAttrs), Tag(<<"a">>, RelLink, NoAttrs),
     Tag(<<"b">>, AbsLink, NoAttrs), Tag(<<"a">>, None, NoAttrs), Tag(<<"b">>, Empty, NoAttrs)}
TextTags == {NoTag, TextTag(Empty), TextTag(<<"s">>)}
ImageTags ==
    {NoTag, Tag(Empty, None, NoAttrs),
     Tag(Empty, None, <<<<"/i.jpg">>, <<"/lazy.jpg">>, None, None>>),
     Tag(Empty, None, <<None, None, None, <<"https://", "cdn/i.jpg", " ", "2x">>>>),
     Tag(Empty, None, <<Empty, <<"/lazy.jpg">>, None, None>>)}

Fragment(title, summary, image, author, date, raises) ==
    [title |-> title, summary |-> summary, image |-> image, author |-> author,
     date |-> date, raises |-> raises]

\* Fragments of the listing pages: two complete articles, one with no link,
\* one whose processing raises
FragA == Fragment(One(Tag(<<"a">>, RelLink, NoAttrs)), One(TextTag(<<"s">>)),
                  One(Tag(Empty, None, <<<<"/i.jpg">>, None, None, None>>)),
                  One(NoTag), One(NoTag), FALSE)
FragB == Fragment(One(Tag(<<"b">>, AbsLink, NoAttrs)), One(NoTag), One(NoTag),
                  One(TextTag(<<"au">>)), One(TextTag(<<"hoy">>)), FALSE)
FragNoLink == Fragment(One(Tag(<<"c">>, None, NoAttrs)), One(TextTag(<<"s">>)), One(NoTag),
                       One(NoTag), One(NoTag), FALSE)
FragRaises == [FragA EXCEPT !.raises = TRUE]
SiblingFrags == {FragA, FragB, FragNoLink, FragRaises}

\* One field's chain varied at a time over a complete fragment
FragSpace ==
    {[FragA EXCEPT !.title = c] : c \in Chains(TitleTags)}
    \cup {[FragA EXCEPT !.summary = c] : c \in Chains(TextTags)}
    \cup {[FragA EXCEPT !.image = c] : c \in Chains(ImageTags)}
    \cup {[FragB EXCEPT !.author = c] : c \in Chains(TextTags)}
    \cup {[FragB EXCEPT !.date = c] : c \in Chains(TextTags)}

SeqsUpTo(S, n) == UNION {[1..k -> S] : k \in 0..n}

Min(a, b) == IF a < b THEN a ELSE b
Last(seq) == seq[Len(seq)]

\* The listings of max_pages pages holding the fragments of `flat` in order
Monotone(n) == {pg \in [1..n -> 1..max_pages] : \A i \in 1..n : \A j \in 1..n : i <= j => pg[i] <= pg[j]}
MkListing(flat, pg) ==
    [p \in 1..max_pages |->
        SubSeq(flat, 1 + Cardinality({i \in DOMAIN flat : pg[i] < p}),
                     Cardinality({i \in DOMAIN flat : pg[i] <= p}))]
Listings(frags, n) ==
    {MkListing(flat, pg) : <<flat, pg>> \in
        UNION {[1..k -> frags] \X Monotone(k) : k \in 0..n}}

-----------------------------------------------------------------------------
(* NewsHistory *)

IdOf(frag) == extract_article(frag)[1].news_id

\* news_history.json: absent, unreadable, or a JSON object with a news_ids array
Absent == [kind |-> "absent", news_ids |-> {}]
Corrupt == [kind |-> "corrupt", news_ids |-> {}]
Json(ids) == [kind |-> "json", news_ids |-> ids]

\* _load_history: the file's news_ids, the empty set if absent or unreadable
load_history(file) == IF file.kind = "json" THEN file.news_ids ELSE {}

\* Variant: the history is not consulted
is_duplicate_never(news_item, ids) == FALSE

\* is_duplicate
is_duplicate(news_item, ids) == news_item.news_id \in ids

\* add_item
add_item(news_item, ids) == ids \cup {news_item.news_id}

\* save_history, lines 113-116: the sets list(self.news_ids)[-self.limit:] can
\* be. The iteration order of a set of strings is arbitrary, so any `lim` of
\* the ids can be the last ones; a slice [-0:] is the whole list.
trimmed(ids, lim) ==
    IF Cardinality(ids) > lim
    THEN IF lim = 0 THEN {ids} ELSE {S \in SUBSET ids : Cardinality(S) = lim}
    ELSE {ids}

\* save_history, lines 118-121: the file after the write; a failed write is
\* logged and leaves the file as it was or cut short
file_after_save(file, ids) == {Json(ids), file, Corrupt}

-----------------------------------------------------------------------------
(* get_unique_news *)

\* for news_item in all_news: ... (lines 427-436)
\* Variant: the `break` of lines 428-429 left out
RECURSIVE scan_page_no_break(_, _, _, _, _)
scan_page_no_break(all_news, new, dup, count, ids) ==
    IF all_news = <<>> THEN [new |-> new, dup |-> dup]
    ELSE IF is_duplicate(Head(all_news), ids)
         THEN scan_page_no_break(Tail(all_news), new, Append(dup, Head(all_news)), count, ids)
         ELSE scan_page_no_break(Tail(all_news), Append(new, Head(all_news)), dup, count, ids)

RECURSIVE scan_page(_, _, _, _, _)
scan_page(all_news, new, dup, count, ids) ==
    IF all_news = <<>> \/ Len(new) >= count THEN [new |-> new, dup |-> dup]
    ELSE IF is_duplicate(Head(all_news), ids)
         THEN scan_page(Tail(all_news), new, Append(dup, Head(all_news)), count, ids)
         ELSE scan_page(Tail(all_news), Append(new, Head(all_news)), dup, count, ids)

Sleep == 0      \* the event of a time.sleep; a page fetch is its page number

\* the page the loop goes on with after an empty page (lines 423-425)
\* Variant: an empty page ends the crawl
after_empty_page_stop(page) == max_pages + 1
after_empty_page(page) == page + 1

\* Variant: a sleep also follows an empty page
CrawlPageSleepOnEmpty ==
    /\ pc = "crawl"
    /\ Len(new_news) < news_count /\ current_page <= max_pages
    /\ \E ok \in BOOLEAN :
        LET all_news == fetch_gaming_news(ok, listing[current_page])
            r == scan_page(all_news, new_news, duplicate_news, news_count, news_ids)
        IN  /\ scanned' = Append(scanned, all_news)
            /\ IF all_news = <<>>
               THEN /\ current_page' = after_empty_page(current_page)
                    /\ events' = events \o <<current_page, Sleep>>
                    /\ UNCHANGED <<new_news, duplicate_news>>
               ELSE /\ new_news' = r.new
                    /\ duplicate_news' = r.dup
                    /\ IF Len(r.new) < news_count
                       THEN /\ current_page' = current_page + 1
                            /\ events' = events \o <<current_page, Sleep>>
                       ELSE /\ current_page' = current_page
                            /\ events' = Append(events, current_page)
    /\ UNCHANGED <<extractVars, siteVars, configVars, history_file, news_ids, dirs, written, pc, run,
                   detailed_news, rc, loaded, added, mode, prev, ops>>

\* One iteration of `while len(new_news) < count and current_page <= max_pages`
CrawlPage ==
    /\ pc = "crawl"
    /\ Len(new_news) < news_count /\ current_page <= max_pages
    /\ \E ok \in BOOLEAN :
        LET all_news == fetch_gaming_news(ok, listing[current_page])
            r == scan_page(all_news, new_news, duplicate_news, news_count, news_ids)
        IN  /\ scanned' = Append(scanned, all_news)
            /\ IF all_news = <<>>
               THEN /\ current_page' = after_empty_page(current_page)
                    /\ events' = Append(events, current_page)
                    /\ UNCHANGED <<new_news, duplicate_news>>
               ELSE /\ new_news' = r.new
                    /\ duplicate_news' = r.dup
                    /\ IF Len(r.new) < news_count
                       THEN /\ current_page' = current_page + 1
                            /\ events' = events \o <<current_page, Sleep>>
                       ELSE /\ current_page' = current_page
                            /\ events' = Append(events, current_page)
    /\ UNCHANGED <<extractVars, siteVars, configVars, history_file, news_ids, dirs, written, pc, run,
                   detailed_news, rc, loaded, added, mode, prev, ops>>

\* The loop condition fails: return new_news, duplicate_news
CrawlReturn ==
    /\ pc = "crawl"
    /\ ~(Len(new_news) < news_count /\ current_page <= max_pages)
    /\ pc' = "crawled"
    /\ UNCHANGED <<extractVars, siteVars, configVars, crawlVars, history_file, news_ids, dirs, written, run,
                   detailed_news, rc, loaded, added, mode, prev, ops>>

-----------------------------------------------------------------------------
(* fetch_article_details *)

\* The element the detail page's image locators find first: the og:image
\* meta (its content, '' when it has none) or an img with its data-src and
\* src (None for an attribute it does not have); NoImage when none matches
Image(meta, content, data_src, src) ==
    [matched |-> TRUE, meta |-> meta, content |-> content, data_src |-> data_src, src |-> src]
NoImage == [matched |-> FALSE, meta |-> FALSE, content |-> None, data_src |-> None, src |-> None]

\* A detail page: the request's outcome, the element the summary locators find
\* first (its text, or its content for the description meta) and the element
\* the image locators find first
Detail(ok, summary, image) == [ok |-> ok, summary |-> summary, image |-> image]
FullDetail == Detail(TRUE, TextTag(<<"detalle">>), Image(FALSE, None, None, <<"/d.jpg">>))
Details ==
    {Detail(TRUE, NoTag, NoImage),
     FullDetail,
     Detail(TRUE, TextTag(Empty), Image(TRUE, <<"https://", "cdn/og.jpg">>, None, None))}

\* Variant: the test `if not news_item.image_url` of line 354 left out
fetch_article_details_overwrite(news_item, detail) ==
    IF ~Truthy(news_item.link) \/ ~detail.ok THEN news_item
    ELSE
    LET summary == IF detail.summary.matched THEN detail.summary.text ELSE news_item.summary
        img == detail.image
        found == IF img.meta THEN (IF img.content # None THEN img.content ELSE Empty)
                 ELSE IF img.data_src # None THEN img.data_src
                 ELSE IF img.src # None THEN img.src
                 ELSE news_item.image_url
        image_url == IF img.matched THEN Absolutize(found) ELSE news_item.image_url
    IN [news_item EXCEPT !.summary = summary, !.image_url = image_url]

\* Variant: the enrichment rewrites the link of the record
fetch_article_details_relink(news_item, detail) ==
    [news_item EXCEPT !.link = BASE_URL \o news_item.link]

fetch_article_details(news_item, detail) ==
    IF ~Truthy(news_item.link) \/ ~detail.ok THEN news_item
    ELSE
    LET summary == IF detail.summary.matched THEN detail.summary.text ELSE news_item.summary
        img == detail.image
        found == IF img.meta THEN (IF img.content # None THEN img.content ELSE Empty)
                 ELSE IF img.data_src # None THEN img.data_src
                 ELSE IF img.src # None THEN img.src
                 ELSE news_item.image_url
        image_url ==
            IF ~Truthy(news_item.image_url) /\ img.matched
            THEN Absolutize(found)
            ELSE news_item.image_url
    IN [news_item EXCEPT !.summary = summary, !.image_url = image_url]

-----------------------------------------------------------------------------
(* save_content *)

\* lines 477-482: the version of the directory chosen: 0 is <date>, k is <date>_Vk
RECURSIVE probe(_, _)
probe(existing, version) ==
    IF version \in existing THEN probe(existing, version + 1) ELSE version

\* Variant: the latest existing version is reused
choose_dir_latest(existing) == IF existing = {} THEN 0 ELSE CHOOSE v \in existing : \A w \in existing : w <= v

choose_dir(existing) == IF 0 \in existing THEN probe(existing, 1) ELSE 0

Ids(items) == {items[i].news_id : i \in DOMAIN items}

\* One call of save_content(detailed_news, captions, scraper, date_str). mkdir
\* or a write can raise; main's handler then returns 1.
SaveContent ==
    /\ pc = "save_content"
    /\ LET v == choose_dir(dirs) IN
       \E outcome \in {"done", "mkdir raises", "write raises"} :
        /\ dirs' = IF outcome = "mkdir raises" THEN dirs ELSE dirs \cup {v}
        /\ written' = IF outcome = "mkdir raises" THEN written
                      ELSE Append(written, [dir |-> v, before |-> dirs, run |-> run,
                                            ids |-> Ids(detailed_news),
                                            n |-> Len(detailed_news),
                                            complete |-> outcome = "done"])
        /\ rc' = IF outcome = "done" THEN 0 ELSE 1
    /\ pc' = "done"
    /\ UNCHANGED <<extractVars, siteVars, configVars, crawlVars, history_file, news_ids, run, detailed_news,
                   loaded, added, mode, prev, ops>>

-----------------------------------------------------------------------------
(* main *)

Take(seq, n) == SubSeq(seq, 1, Min(n, Len(seq)))
Orderings(S) == {o \in [1..Cardinality(S) -> S] : \A i, j \in DOMAIN o : o[i] = o[j] => i = j}

\* lines 568-575: the records made of the first news_count homepage links
\* (href.startswith('http') is taken as the test of line 255)
RECURSIVE homepage_items(_)
homepage_items(links) ==
    IF links = <<>> THEN <<>>
    ELSE <<NewsItem(Head(links).title, Empty, Absolutize(Head(links).href), None, None, None)>>
         \o homepage_items(Tail(links))

NoPrev == [valid |-> FALSE, loaded |-> {}, new |-> <<>>, scanned |-> <<>>]

\* lines 525-533: a run starts: logging, GamingNewsScraper() loads the history
MainStart ==
    /\ pc \in {"idle", "done"}
    /\ run < max_runs
    /\ run' = run + 1
    /\ prev' = IF pc = "done" /\ mode # "none"
               THEN [valid |-> TRUE, loaded |-> loaded,
                     new |-> IF mode = "new" THEN new_news ELSE <<>>,
                     scanned |-> scanned]
               ELSE NoPrev
    /\ \/ /\ news_ids' = load_history(history_file)
          /\ loaded' = load_history(history_file)
          /\ pc' = "crawl"
          /\ rc' = -1
       \/ \* setup_logging or the constructor raises: main returns 1
          /\ news_ids' = {}
          /\ loaded' = {}
          /\ pc' = "done"
          /\ rc' = 1
    /\ added' = {}
    /\ mode' = "none"
    /\ current_page' = 1
    /\ new_news' = <<>>
    /\ duplicate_news' = <<>>
    /\ detailed_news' = <<>>
    /\ events' = <<>>
    /\ scanned' = <<>>
    /\ UNCHANGED <<extractVars, siteVars, configVars, history_file, dirs, written, ops>>

\* lines 589-590: new_news is not empty
MainNewNews ==
    /\ pc = "crawled"
    /\ new_news # <<>>
    /\ mode' = "new"
    /\ pc' = "enrich"
    /\ UNCHANGED <<extractVars, siteVars, configVars, crawlVars, history_file, news_ids, dirs, written, run,
                   detailed_news, rc, loaded, added, prev, ops>>

\* Variant: the fallback is entered whenever the crawl is short of the target
MainFallbackAlways ==
    /\ pc = "crawled"
    /\ Len(new_news) < news_count
    /\ \E home_ok \in BOOLEAN : \E o \in Orderings(homepage) : \E ok \in BOOLEAN :
        LET fallback_news == IF home_ok THEN homepage_items(Take(o, news_count)) ELSE <<>>
            all_news == fetch_gaming_news(ok, listing[1])
        IN  IF fallback_news # <<>>
            THEN /\ new_news' = fallback_news
                 /\ mode' = "homepage"
                 /\ pc' = "enrich"
                 /\ rc' = rc
            ELSE IF all_news = <<>>
            THEN /\ new_news' = new_news
                 /\ mode' = "failed"
                 /\ pc' = "done"
                 /\ rc' = 1
            ELSE /\ new_news' = Take(all_news, news_count)
                 /\ mode' = "duplicates"
                 /\ pc' = "enrich"
                 /\ rc' = rc
    /\ UNCHANGED <<extractVars, siteVars, configVars, history_file, news_ids, dirs, written, run,
                   current_page, duplicate_news, events, scanned, detailed_news,
                   loaded, added, prev, ops>>

\* Variant: the `return 1` of line 586 left out
MainFallbackNoReturn ==
    /\ pc = "crawled"
    /\ new_news = <<>>
    /\ \E home_ok \in BOOLEAN : \E o \in Orderings(homepage) : \E ok \in BOOLEAN :
        LET fallback_news == IF home_ok THEN homepage_items(Take(o, news_count)) ELSE <<>>
            all_news == fetch_gaming_news(ok, listing[1])
        IN  IF fallback_news # <<>>
            THEN /\ new_news' = fallback_news
                 /\ mode' = "homepage"
                 /\ pc' = "enrich"
                 /\ rc' = rc
            ELSE IF all_news = <<>>
            THEN /\ new_news' = Take(all_news, news_count)
                 /\ mode' = "failed"
                 /\ pc' = "enrich"
                 /\ rc' = rc
            ELSE /\ new_news' = Take(all_news, news_count)
                 /\ mode' = "duplicates"
                 /\ pc' = "enrich"
                 /\ rc' = rc
    /\ UNCHANGED <<extractVars, siteVars, configVars, history_file, news_ids, dirs, written, run,
                   current_page, duplicate_news, events, scanned, detailed_news,
                   loaded, added, prev, ops>>

\* lines 540-588: no new record: the homepage link scan, then page 1 again
MainFallback ==
    /\ pc = "crawled"
    /\ new_news = <<>>
    /\ \E home_ok \in BOOLEAN : \E o \in Orderings(homepage) : \E ok \in BOOLEAN :
        LET fallback_news == IF home_ok THEN homepage_items(Take(o, news_count)) ELSE <<>>
            all_news == fetch_gaming_news(ok, listing[1])
        IN  IF fallback_news # <<>>
            THEN /\ new_news' = fallback_news
                 /\ mode' = "homepage"
                 /\ pc' = "enrich"
                 /\ rc' = rc
            ELSE IF all_news = <<>>
            THEN /\ new_news' = new_news
                 /\ mode' = "failed"
                 /\ pc' = "done"
                 /\ rc' = 1
            ELSE /\ new_news' = Take(all_news, news_count)
                 /\ mode' = "duplicates"
                 /\ pc' = "enrich"
                 /\ rc' = rc
    /\ UNCHANGED <<extractVars, siteVars, configVars, history_file, news_ids, dirs, written, run,
                   current_page, duplicate_news, events, scanned, detailed_news,
                   loaded, added, prev, ops>>

\* lines 593-597: one iteration of `for item in new_news`
MainEnrich ==
    /\ pc = "enrich"
    /\ Len(detailed_news) < Len(new_news)
    /\ \E ok \in BOOLEAN :
        LET detail == [detail_page EXCEPT !.ok = ok]
            detailed_item == fetch_article_details(new_news[Len(detailed_news) + 1], detail)
        IN  /\ detailed_news' = Append(detailed_news, detailed_item)
            /\ IF ~is_duplicate(detailed_item, news_ids)
               THEN /\ news_ids' = add_item(detailed_item, news_ids)
                    /\ added' = added \cup {detailed_item.news_id}
               ELSE UNCHANGED <<news_ids, added>>
    /\ UNCHANGED <<extractVars, siteVars, configVars, crawlVars, history_file, dirs, written, pc, run, rc,
                   loaded, mode, prev, ops>>

\* line 599: scraper.history.save_history(), then the captions (lines 601-606)
MainSaveHistory ==
    /\ pc = "enrich"
    /\ Len(detailed_news) = Len(new_news)
    /\ \E kept \in trimmed(news_ids, limit) :
        /\ news_ids' = kept
        /\ history_file' \in file_after_save(history_file, kept)
    /\ pc' = "save_content"
    /\ UNCHANGED <<extractVars, siteVars, configVars, crawlVars, dirs, written, run, detailed_news, rc,
                   loaded, added, mode, prev, ops>>

-----------------------------------------------------------------------------
(* The runs of main *)

HomeA == [title |-> <<"a">>, href |-> RelLink]
HomeH == [title |-> <<"h">>, href |-> <<"/noticias/h">>]
SiteFrags == {FragA, FragB}

\* The listings with the fragments of `flat` on pages 1 and 2
TwoPages(frags, n) ==
    {[p \in 1..max_pages |->
        IF p = 1 THEN SubSeq(flat, 1, cut)
        ELSE IF p = 2 THEN SubSeq(flat, cut + 1, Len(flat)) ELSE <<>>] :
     <<flat, cut>> \in UNION {[1..k -> frags] \X (0..k) : k \in 0..n}}

NoExtract == /\ articles = <<>> /\ news_list = <<>> /\ xpc = "off"
NoRun ==
    /\ pc = "idle" /\ run = 0 /\ current_page = 1 /\ new_news = <<>>
    /\ duplicate_news = <<>> /\ detailed_news = <<>> /\ rc = -1 /\ events = <<>>
    /\ scanned = <<>> /\ loaded = {} /\ added = {} /\ mode = "none" /\ prev = NoPrev
HistoryFiles == {Absent} \cup {Json(S) : S \in SUBSET {IdOf(FragA), IdOf(FragB)}}

\* One run of main, from any state an earlier run can have left on disk
Init ==
    /\ NoExtract
    /\ NoRun
    /\ max_runs = 1
    /\ listing \in TwoPages(SiteFrags, MaxSite)
    /\ homepage \in {{}, {HomeH}, {HomeA, HomeH}}
    /\ detail_page = FullDetail
    /\ history_file \in HistoryFiles
    /\ news_ids = {}
    /\ limit \in 0..MaxLimit
    /\ news_count \in 1..MaxTarget
    /\ dirs = {}
    /\ written = <<>>
    /\ ops = 0

Next ==
    \/ MainStart
    \/ CrawlPage
    \/ CrawlReturn
    \/ MainNewNews
    \/ MainFallback
    \/ MainEnrich
    \/ MainSaveHistory
    \/ SaveContent

Spec == Init /\ [][Next]_vars

-----------------------------------------------------------------------------
(* Two runs of main, one after the other, on the same site *)

InitRerun ==
    /\ NoExtract
    /\ NoRun
    /\ max_runs = 2
    /\ listing \in TwoPages(SiteFrags, MaxSite)
    /\ homepage = {}
    /\ detail_page = FullDetail
    /\ history_file \in {Absent, Json({IdOf(FragA)})}
    /\ news_ids = {}
    /\ limit \in 0..MaxLimit
    /\ news_count \in 1..MaxTarget
    /\ dirs = {}
    /\ written = <<>>
    /\ ops = 0

SpecRerun == InitRerun /\ [][Next]_vars

-----------------------------------------------------------------------------
(* get_unique_news alone *)

ListingFrags == {FragA, FragB, FragNoLink}
QuietSite == homepage = {} /\ detail_page = FullDetail
QuietDisk == history_file = Absent /\ dirs = {} /\ written = <<>>

InitCrawl ==
    /\ NoExtract
    /\ QuietSite
    /\ QuietDisk
    /\ listing \in Listings(ListingFrags, MaxListing)
    /\ news_ids \in SUBSET {IdOf(FragA), IdOf(FragB)}
    /\ loaded = news_ids
    /\ limit = 0 /\ max_runs = 1 /\ run = 1 /\ ops = 0
    /\ news_count \in 0..MaxTarget
    /\ pc = "crawl" /\ current_page = 1 /\ new_news = <<>> /\ duplicate_news = <<>>
    /\ events = <<>> /\ scanned = <<>>
    /\ detailed_news = <<>> /\ rc = -1 /\ added = {} /\ mode = "none" /\ prev = NoPrev

NextCrawl == CrawlPage \/ CrawlReturn

SpecCrawl == InitCrawl /\ [][NextCrawl]_vars

-----------------------------------------------------------------------------
(* fetch_gaming_news alone *)

EmptyListing == [p \in 1..max_pages |-> <<>>]

\* The pages: up to MaxArticles fragments, at most one of them out of FragSpace
Pages ==
    LET base == SeqsUpTo(SiblingFrags, MaxArticles) IN
    base \cup {[b EXCEPT ![i] = f] : <<b, i, f>> \in
                  {t \in base \X (1..MaxArticles) \X FragSpace : t[2] <= Len(t[1])}}

InitExtract ==
    /\ articles \in Pages
    /\ news_list = <<>>
    /\ xpc = "ready"
    /\ NoRun
    /\ QuietSite
    /\ QuietDisk
    /\ listing = EmptyListing
    /\ news_ids = {} /\ limit = 0 /\ news_count = 0 /\ max_runs = 0 /\ ops = 0

\* One call of fetch_gaming_news on the page
FetchGamingNews ==
    /\ xpc = "ready"
    /\ \E ok \in BOOLEAN :
        /\ news_list' = fetch_gaming_news(ok, articles)
        /\ xpc' = IF ok THEN "returned" ELSE "failed"
    /\ UNCHANGED <<articles, siteVars, configVars, crawlVars, history_file, news_ids, dirs,
                   written, pc, run, detailed_news, rc, loaded, added, mode, prev, ops>>

SpecExtract == InitExtract /\ [][FetchGamingNews]_vars

-----------------------------------------------------------------------------
(* NewsHistory alone *)

ItemA == extract_article(FragA)[1]
ItemB == extract_article(FragB)[1]
ItemH == homepage_items(<<HomeH>>)[1]
Items == {ItemA, ItemB, ItemH}

InitHistory ==
    /\ NoExtract
    /\ QuietSite
    /\ listing = EmptyListing
    /\ history_file \in {Absent, Corrupt} \cup {Json(Ids(s)) : s \in SeqsUpTo(Items, 2)}
    /\ limit \in 0..MaxLimit
    /\ news_ids = load_history(history_file)
    /\ loaded = load_history(history_file)
    /\ added = {}
    /\ mode = "loaded"
    /\ ops = 0
    /\ dirs = {} /\ written = <<>> /\ news_count = 0 /\ max_runs = 0 /\ run = 0
    /\ pc = "idle" /\ current_page = 1 /\ new_news = <<>> /\ duplicate_news = <<>>
    /\ events = <<>> /\ scanned = <<>> /\ detailed_news = <<>> /\ rc = -1 /\ prev = NoPrev

\* history.add_item(news_item)
HistoryAdd ==
    /\ ops < MaxOps
    /\ \E item \in Items :
        /\ news_ids' = add_item(item, news_ids)
        /\ added' = added \cup {item.news_id}
    /\ mode' = "added"
    /\ ops' = ops + 1
    /\ UNCHANGED <<extractVars, siteVars, configVars, crawlVars, history_file, dirs, written,
                   pc, run, detailed_news, rc, loaded, prev>>

\* history.save_history()
HistorySave ==
    /\ ops < MaxOps
    /\ \E kept \in trimmed(news_ids, limit) :
        /\ news_ids' = kept
        /\ history_file' \in file_after_save(history_file, kept)
        /\ mode' = IF history_file' = Json(kept) THEN "saved" ELSE "save failed"
    /\ ops' = ops + 1
    /\ UNCHANGED <<extractVars, siteVars, configVars, crawlVars, dirs, written,
                   pc, run, detailed_news, rc, loaded, added, prev>>

NextHistory == HistoryAdd \/ HistorySave

SpecHistory == InitHistory /\ [][NextHistory]_vars

-----------------------------------------------------------------------------
(* save_content alone: calls for one date, one after the other *)

InitSave ==
    /\ NoExtract
    /\ QuietSite
    /\ listing = EmptyListing
    /\ history_file = Absent /\ news_ids = {} /\ limit = 0 /\ news_count = 0
    /\ max_runs = 1 /\ run = 1 /\ ops = 0
    /\ dirs \in SUBSET (0..MaxVersion)
    /\ written = <<>>
    /\ pc = "save_content"
    /\ detailed_news \in {<<ItemA>>, <<ItemA, ItemB>>}
    /\ current_page = 1 /\ new_news = detailed_news /\ duplicate_news = <<>>
    /\ events = <<>> /\ scanned = <<>> /\ rc = -1 /\ loaded = {} /\ added = {}
    /\ mode = "new" /\ prev = NoPrev

\* save_content is called again for the same date
SaveContentAgain ==
    /\ pc = "done"
    /\ ops < MaxOps
    /\ ops' = ops + 1
    /\ pc' = "save_content"
    /\ UNCHANGED <<extractVars, siteVars, configVars, crawlVars, history_file, news_ids, dirs,
                   written, run, detailed_news, rc, loaded, added, mode, prev>>

NextSave == SaveContent \/ SaveContentAgain

SpecSave == InitSave /\ [][NextSave]_vars

-----------------------------------------------------------------------------
(* fetch_article_details alone: one call on one record *)

\* What the summary locators and the image locators of a detail page can find
SummaryTags == {NoTag, TextTag(Empty), TextTag(<<"detalle">>)}
DetailImages ==
    {NoImage,
     Image(TRUE, <<"https://", "cdn/og.jpg">>, None, None),
     Image(TRUE, None, None, None),
     Image(FALSE, None, <<"/lazy.jpg">>, <<"/d.jpg">>),
     Image(FALSE, None, None, <<"/d.jpg">>),
     Image(FALSE, None, None, Empty),
     Image(FALSE, None, None, None)}
DetailPages == Details \cup {Detail(TRUE, s, i) : <<s, i>> \in SummaryTags \X DetailImages}

\* The records handed to fetch_article_details: with and without a link, an
\* image and a summary of the listing
ListedItems ==
    {NewsItem(<<"a">>, s, l, i, None, None) :
        <<s, l, i>> \in {SinResumen, <<"s">>, Empty}
                        \X {BASE_URL \o RelLink, Empty}
                        \X {None, Empty, <<"https://", "cdn/i.jpg">>}}

InitDetails ==
    /\ NoExtract
    /\ QuietDisk
    /\ listing = EmptyListing
    /\ homepage = {}
    /\ detail_page \in DetailPages
    /\ new_news \in {<<item>> : item \in ListedItems}
    /\ detailed_news = <<>>
    /\ pc = "details" /\ mode = "none"
    /\ news_ids = {} /\ limit = 0 /\ news_count = 1 /\ max_runs = 1 /\ run = 1 /\ ops = 0
    /\ current_page = 1 /\ duplicate_news = <<>> /\ events = <<>> /\ scanned = <<>>
    /\ rc = -1 /\ loaded = {} /\ added = {} /\ prev = NoPrev

\* One call of fetch_article_details(new_news[1]); the request, the debug
\* dump or the parse can raise
FetchArticleDetails ==
    /\ pc = "details"
    /\ \E ok \in BOOLEAN :
        /\ detailed_news' = <<fetch_article_details(new_news[1], [detail_page EXCEPT !.ok = ok])>>
        /\ mode' = IF ~Truthy(new_news[1].link) THEN "no link"
                   ELSE IF ok THEN "fetched" ELSE "fetch failed"
    /\ pc' = "detailed"
    /\ UNCHANGED <<extractVars, siteVars, configVars, crawlVars, history_file, news_ids, dirs,
                   written, run, rc, loaded, added, prev, ops>>

SpecDetails == InitDetails /\ [][FetchArticleDetails]_vars

-----------------------------------------------------------------------------
(* Properties of get_unique_news (SpecCrawl) *)

RECURSIVE Flatten(_)
Flatten(seqs) == IF seqs = <<>> THEN <<>> ELSE Head(seqs) \o Flatten(Tail(seqs))

\* What get_unique_news was given, in crawl order
Crawled == Flatten(scanned)
Fresh(r) == r.news_id \notin loaded
Known(r) == r.news_id \in loaded
FreshUpTo(seq, i) == Cardinality({j \in 1..i : Fresh(seq[j])})

\* Where the scan stopped: at the record that brought |new| to the target,
\* at the end of the last page when the target was not reached
StopIndex ==
    IF \E i \in DOMAIN Crawled : Fresh(Crawled[i]) /\ FreshUpTo(Crawled, i) = news_count
    THEN CHOOSE i \in DOMAIN Crawled : Fresh(Crawled[i]) /\ FreshUpTo(Crawled, i) = news_count
    ELSE Len(Crawled)

\* C2: get_unique_news returns as `new` exactly the first min(target, available)
\* records, in crawl order, whose id is not in the history, and as `dup` exactly
\* the records whose id is in the history that come before the point where the
\* scan stopped; |new| never exceeds the target and no record is in both lists.
C2_NewAndDupPartition ==
    pc = "crawled" =>
        /\ new_news = Take(SelectSeq(Crawled, Fresh), news_count)
        /\ duplicate_news = SelectSeq(SubSeq(Crawled, 1, StopIndex), Known)
        /\ Len(new_news) <= news_count
        /\ \A i \in DOMAIN new_news : \A j \in DOMAIN duplicate_news :
               new_news[i] # duplicate_news[j]

\* The spec's scenario: the history holds A, page 1 is [A, B], the target is 1;
\* the crawl returns new = [B], dup = [A] and leaves page 2 unread
C2_Witness ==
    /\ pc = "crawled" /\ news_count = 1 /\ loaded = {ItemA.news_id}
    /\ scanned = <<<<ItemA, ItemB>>>> /\ listing[2] # <<>>
    /\ new_news = <<ItemB>> /\ duplicate_news = <<ItemA>>

Fetches == SelectSeq(events, LAMBDA e : e # Sleep)
FreshOnPages(k) == Len(SelectSeq(Flatten(SubSeq(scanned, 1, k)), Fresh))

\* C3: get_unique_news ends, after fetching exactly the pages 1, 2, ..., k in
\* this order, k being the first page at which |new| reaches the target, or
\* max_pages when it never does; an empty page does not end the crawl.
C3_PagesInOrderUntilQuota ==
    /\ Len(scanned) <= max_pages
    /\ pc = "crawl" => ENABLED NextCrawl
    /\ Fetches = [i \in 1..Len(scanned) |-> i]
    /\ \A k \in 0..(Len(scanned) - 1) : FreshOnPages(k) < news_count
    /\ pc = "crawled" =>
        \/ FreshOnPages(Len(scanned)) >= news_count
        \/ Len(scanned) = max_pages

\* The spec's scenario: five empty pages, target not reached, new = []
C3_Witness ==
    /\ pc = "crawled" /\ news_count = MaxTarget
    /\ scanned = [i \in 1..max_pages |-> <<>>]
    /\ listing[1] # <<>>
    /\ new_news = <<>>

\* C13 as stated: the sleeps occur exactly between consecutive page fetches:
\* every fetch after the first is preceded by one sleep since the previous
\* fetch, also when the previous page was empty, and no sleep occurs after the
\* last fetch of the crawl.
C13_SleepBetweenEveryFetch ==
    /\ events # <<>> => events[1] # Sleep
    /\ \A i \in 2..Len(events) : events[i] # Sleep => events[i - 1] = Sleep
    /\ \A i \in 2..Len(events) : events[i] = Sleep => events[i - 1] # Sleep
    /\ (pc = "crawled" /\ events # <<>>) => Last(events) # Sleep

\* The fetches of pages 1..k, each followed by a sleep exactly when the page
\* was not empty and left |new| below the target
RECURSIVE ExpectedEvents(_)
ExpectedEvents(k) ==
    IF k = 0 THEN <<>>
    ELSE ExpectedEvents(k - 1) \o <<k>>
         \o (IF scanned[k] # <<>> /\ FreshOnPages(k) < news_count THEN <<Sleep>> ELSE <<>>)

\* C13 as amended: one sleep follows each fetch of a non-empty page that
\* leaves |new| below the target, also the fetch of the last page
\* (max_pages), after which the crawl returns; no sleep follows the fetch of
\* an empty page, nor the fetch that brings |new| to the target; no sleep
\* comes before the first fetch, and never two between two fetches.
C13_SleepAfterShortNonEmptyPage ==
    /\ events = ExpectedEvents(Len(scanned))
    /\ events # <<>> => events[1] # Sleep
    /\ \A i \in 2..Len(events) : events[i] = Sleep => events[i - 1] # Sleep

\* A crawl that fetched an empty page and then the next with no sleep between
\* them, and slept after the fetch of the last page before it returned
C13_Witness ==
    /\ pc = "crawled" /\ Len(scanned) = max_pages
    /\ \E i \in 1..(Len(events) - 1) : events[i] # Sleep /\ events[i + 1] # Sleep
    /\ Last(events) = Sleep
    /\ scanned[max_pages] # <<>> /\ Len(new_news) < news_count

\* C14: the `new` list of get_unique_news never holds two records with the
\* same id, also when the same article (same title and link) is in more than
\* one fragment of a page or on more than one crawled page; the number of
\* distinct new articles is |new|.
C14_NewIdsDistinct ==
    /\ \A i \in DOMAIN new_news : \A j \in DOMAIN new_news :
           new_news[i].news_id = new_news[j].news_id => i = j
    /\ Cardinality(Ids(new_news)) = Len(new_news)

-----------------------------------------------------------------------------
(* Properties of fetch_gaming_news (SpecExtract) *)

MinOf(S) == CHOOSE i \in S : \A j \in S : i <= j
Matching(chain) == {i \in DOMAIN chain : chain[i].matched}
WithText(chain) == {i \in DOMAIN chain : chain[i].matched /\ chain[i].text # Empty}

\* The text of the first locator that matches an element
FirstMatchText(chain, default) ==
    IF Matching(chain) = {} THEN default ELSE chain[MinOf(Matching(chain))].text
\* The text of the first locator that yields non-empty text
FirstTextWins(chain, default) ==
    IF WithText(chain) = {} THEN default ELSE chain[MinOf(WithText(chain))].text

\* Every fragment of the page gave a record: news_list[i] is of articles[i]
Aligned == xpc = "returned" /\ Len(news_list) = Len(articles)

\* C8 as stated: each text field is the text of the first locator of its chain
\* that yields non-empty text; a locator matching an element with empty text
\* is passed over; the field is absent (summary: the default) only if every
\* locator fails or yields empty text.
C8_FirstNonEmptyLocatorWins ==
    Aligned =>
        \A i \in DOMAIN articles :
            /\ news_list[i].title = FirstTextWins(articles[i].title, None)
            /\ news_list[i].summary = FirstTextWins(articles[i].summary, SinResumen)
            /\ news_list[i].author = FirstTextWins(articles[i].author, None)
            /\ news_list[i].published_date = FirstTextWins(articles[i].date, None)

\* C8 as amended: each text field is the text of the first locator of its chain
\* that matches an element, empty or not; later locators are consulted only
\* when the earlier ones match nothing; the field is absent (summary: the
\* default) only if no locator matches; a fragment whose first matching title
\* locator has empty text gives no record.
C8_FirstMatchingLocatorWins ==
    /\ Aligned =>
        \A i \in DOMAIN articles :
            /\ news_list[i].title = FirstMatchText(articles[i].title, None)
            /\ news_list[i].summary = FirstMatchText(articles[i].summary, SinResumen)
            /\ news_list[i].author = FirstMatchText(articles[i].author, None)
            /\ news_list[i].published_date = FirstMatchText(articles[i].date, None)
    /\ xpc = "returned" =>
        \A i \in DOMAIN articles :
            FirstMatchText(articles[i].title, None) \in {None, Empty}
                => Len(news_list) < Len(articles)

\* An empty summary element ahead of one with text: the record's summary is empty
C8_Witness ==
    /\ Aligned
    /\ \E i \in DOMAIN articles :
        /\ articles[i].summary[1] = TextTag(Empty)
        /\ articles[i].summary[2] = TextTag(<<"s">>)
        /\ news_list[i].summary = Empty

Complete(f) ==
    /\ ~f.raises
    /\ FirstMatchText(f.title, None) \notin {None, Empty}
    /\ f.title[MinOf(Matching(f.title))].href \notin {None, Empty}
CompleteArticles == SelectSeq(articles, Complete)

\* C9: every record fetch_gaming_news returns has a non-empty title and a
\* non-empty absolute link; the records are those of the fragments with a
\* title and a link, in page order: a fragment without one gives no record and
\* does not keep the others from giving theirs.
C9_OnlyCompleteRecords ==
    /\ \A i \in DOMAIN news_list :
        /\ news_list[i].title # Empty /\ news_list[i].title # None
        /\ news_list[i].link # Empty /\ news_list[i].link # None
        /\ StartsWithHttp(news_list[i].link)
    /\ xpc = "returned" =>
        /\ Len(news_list) = Len(CompleteArticles)
        /\ \A i \in DOMAIN news_list :
            LET tag == CompleteArticles[i].title[MinOf(Matching(CompleteArticles[i].title))]
            IN  /\ news_list[i].title = tag.text
                /\ news_list[i].link \in {tag.href, BASE_URL \o tag.href}
    /\ xpc = "failed" => news_list = <<>>

\* A fragment with no link, then a complete one: one record, of the second
C9_Witness ==
    /\ xpc = "returned"
    /\ articles = <<FragNoLink, FragA>>
    /\ news_list = <<ItemA>>
    /\ ItemA.link = BASE_URL \o RelLink

-----------------------------------------------------------------------------
(* Properties of save_content (SpecSave) *)

\* C4: save_content writes only into a directory that did not exist when the
\* call started: <date> if unused, otherwise <date>_Vk for the smallest k >= 1
\* that is unused; calls for the same date write into pairwise distinct
\* directories (<date>, <date>_V1, <date>_V2, ... when none existed), none
\* into a directory an earlier call created.
C4_FreshVersionedDirectory ==
    \A i \in DOMAIN written :
        LET e == written[i] IN
        /\ e.dir \notin e.before
        /\ \/ e.dir = 0
           \/ /\ 0 \in e.before
              /\ e.dir >= 1
              /\ \A k \in 1..(e.dir - 1) : k \in e.before
        /\ \A j \in 1..(i - 1) : written[j].dir # e.dir /\ written[j].dir \in e.before
        /\ written[1].before = {} => e.dir = i - 1

\* Three calls, none existing before: <date>, <date>_V1, <date>_V2; and a call
\* that found <date> and <date>_V2 and chose <date>_V1
C4_Witness ==
    \/ /\ Len(written) = 3 /\ written[1].before = {}
       /\ written[1].dir = 0 /\ written[2].dir = 1 /\ written[3].dir = 2
    \/ /\ Len(written) = 2 /\ written[1].before = {0, 2}
       /\ written[1].dir = 1 /\ written[2].dir = 3

-----------------------------------------------------------------------------
(* Properties of NewsHistory (SpecHistory) *)

\* C5: for every capacity >= 0, after save_history the set in memory and the
\* persisted news_ids both have at most `capacity` elements, and exactly
\* `capacity` when more were held before the save.
C5_CapacityAfterSave ==
    [][(mode' = "saved" /\ ops' = ops + 1) =>
          /\ Cardinality(news_ids') <= limit
          /\ Cardinality(history_file'.news_ids) <= limit
          /\ Cardinality(news_ids) > limit =>
                /\ Cardinality(news_ids') = limit
                /\ Cardinality(history_file'.news_ids) = limit]_vars

\* The same, for the capacities >= 1
C5_CapacityAfterSavePositive ==
    [][(mode' = "saved" /\ ops' = ops + 1 /\ limit >= 1) =>
          /\ Cardinality(news_ids') <= limit
          /\ Cardinality(history_file'.news_ids) <= limit
          /\ Cardinality(news_ids) > limit =>
                /\ Cardinality(news_ids') = limit
                /\ Cardinality(history_file'.news_ids) = limit]_vars

-----------------------------------------------------------------------------
(* Properties of a run of main (Spec) *)

FellBack == {"homepage", "duplicates", "failed"}

\* C6: main returns 0 only when save_content was completed with at least one
\* record (new, from the homepage link scan, or duplicates reused as a last
\* resort), and returns non-zero when the crawl, the homepage link scan and the
\* last-resort fetch of page 1 all yield no record.
C6_ZeroOnlyWhenMaterialized ==
    pc = "done" =>
        /\ rc \in {0, 1}
        /\ rc = 0 =>
            /\ written # <<>>
            /\ Last(written).run = run
            /\ Last(written).complete
            /\ Last(written).n >= 1
            /\ Last(written).ids = Ids(detailed_news)
            /\ mode \in {"new", "homepage", "duplicates"}
        /\ mode = "failed" => rc = 1 /\ detailed_news = <<>>
        /\ detailed_news = <<>> => rc = 1

\* A run that found no new record and no homepage link, reused the duplicates
\* of page 1 and returned 0
C6_Witness ==
    /\ pc = "done" /\ rc = 0 /\ mode = "duplicates"
    /\ Last(written).complete /\ Last(written).n >= 1

\* C7 as stated: whenever get_unique_news returns fewer than target new
\* records (any |new| < target), the run enters the fallback.
C7_FallbackWhenShort ==
    [][(pc = "crawled" /\ Len(new_news) < news_count) => mode' \in FellBack]_vars

\* C7 as amended: the run enters the fallback exactly when get_unique_news
\* returns no new record; with some new records, even fewer than the target,
\* it goes on with them, without fallback and without failing.
C7_FallbackOnlyWhenNoneNew ==
    [][pc = "crawled" =>
          /\ new_news = <<>> => mode' \in FellBack
          /\ new_news # <<>> =>
                /\ mode' = "new"
                /\ new_news' = new_news
                /\ pc' = "enrich"
                /\ rc' = rc]_vars

\* get_unique_news returned one new record for a target of two; the run goes
\* on with it, without fallback
C7_Witness ==
    /\ pc = "enrich" /\ mode = "new"
    /\ news_count = 2 /\ Len(new_news) = 1
    /\ Len(scanned) = max_pages

Digest(r) == <<"md5">> \o r.title \o <<"|">> \o r.link
Records(seq) == {seq[i] : i \in DOMAIN seq}

\* C10: in every state of a run every record's id is the digest of its
\* current (title, link); enrichment changes neither title, link nor id, and
\* the id put into the history is the id the history check uses.
C10_IdIsDigestOfTitleAndLink ==
    /\ \A r \in Records(new_news) \cup Records(duplicate_news) \cup Records(detailed_news)
                \cup Records(Flatten(scanned)) :
           r.news_id = Digest(r)
    /\ \A i \in DOMAIN detailed_news :
        /\ i <= Len(new_news)
        /\ detailed_news[i].title = new_news[i].title
        /\ detailed_news[i].link = new_news[i].link
        /\ detailed_news[i].news_id = new_news[i].news_id
    /\ pc = "enrich" => \A r \in Records(detailed_news) : r.news_id \in news_ids
    /\ added \subseteq {Digest(r) : r \in Records(detailed_news)}
    /\ \A r \in Records(new_news) : Digest(r) \in loaded => mode \in {"homepage", "duplicates"}

\* A record whose summary and image the detail page changed, under the same id
C10_Witness ==
    /\ pc = "done" /\ rc = 0
    /\ \E i \in DOMAIN detailed_news :
        /\ detailed_news[i].summary # new_news[i].summary
        /\ detailed_news[i].news_id = Digest(new_news[i])
        /\ detailed_news[i].news_id \in added

\* The ids of the records whose content bundle save_content wrote completely
MaterializedIds == UNION {written[i].ids : i \in {j \in DOMAIN written : written[j].complete}}

\* The run got past the constructor: `loaded` is what the file held at its start
RunUnderWay == pc # "idle" /\ ~(pc = "done" /\ mode = "none")

\* C12: at every point of every run, also of a run whose save_content fails or
\* is never reached, each id in the persisted history file is of a record
\* that was materialized in this run or in an earlier one (the ids the file
\* held when the run started); no id is persisted for a record whose content
\* bundle was not written.
C12_PersistedOnlyMaterialized ==
    RunUnderWay => history_file.news_ids \subseteq loaded \cup MaterializedIds

\* The same at the end of the run only
C12_PersistedOnlyMaterializedAtEnd ==
    (RunUnderWay /\ pc = "done") => history_file.news_ids \subseteq loaded \cup MaterializedIds

\* save_history of this run has written the file
HistorySaved == pc = "save_content" /\ history_file = Json(news_ids)

\* C15: in every run whose capacity is at least the number of records accepted
\* in it, after save_history every id added to the history during the run is
\* in the persisted set, whatever was loaded at the start: the trimming takes
\* out only ids loaded from earlier runs.
C15_AddedIdsSurviveTrim ==
    (HistorySaved /\ Cardinality(added) <= limit) =>
        /\ added \subseteq history_file.news_ids
        /\ (loaded \cup added) \ history_file.news_ids \subseteq loaded \ added

-----------------------------------------------------------------------------
(* Properties of two runs on the same site (SpecRerun) *)

\* Both crawls got every page they fetched as the site has it
SameContent ==
    /\ prev.valid
    /\ \A i \in DOMAIN scanned : scanned[i] = parse_articles(listing[i])
    /\ \A i \in DOMAIN prev.scanned : prev.scanned[i] = parse_articles(listing[i])

\* Run 2 loaded what run 1 had loaded and every id of run 1's `new` list
Run1Recorded == prev.loaded \cup Ids(prev.new) \subseteq loaded

SecondCrawlDone == run = 2 /\ pc = "crawled" /\ SameContent

\* C1 as stated: on the same listing content, with the history of run 1, the
\* second get_unique_news returns an empty `new` list and every record it
\* scanned is in `dup`.
C1_SecondRunFindsNothingNew ==
    (SecondCrawlDone /\ Run1Recorded) => new_news = <<>> /\ duplicate_news = Crawled

\* C1 as amended: run 2 returns as new no record whose id is in the history
\* it loaded, and has those it scans in `dup`; so, when that history holds what
\* run 1 loaded and the ids of run 1's `new` list, no record of run 1's `new`
\* list is new again, and run 2's `new` list is empty, with every scanned
\* record in `dup`, if run 1 ended short of its target (having scanned all
\* pages). When run 1 stopped at its target, run 2 can return as new the
\* records run 1 did not scan.
C1_NothingReturnedTwice ==
    SecondCrawlDone =>
        /\ \A r \in Records(new_news) : r.news_id \notin loaded
        /\ \A i \in 1..StopIndex :
               Crawled[i].news_id \in loaded => Crawled[i] \in Records(duplicate_news)
        /\ Run1Recorded => \A r \in Records(prev.new) : r \notin Records(new_news)
        /\ (Run1Recorded /\ Len(prev.new) < news_count) =>
               new_news = <<>> /\ duplicate_news = Crawled

\* Run 1 found one new record for a target of two; run 2 finds none and has
\* it among the duplicates
C1_Witness ==
    /\ SecondCrawlDone /\ Run1Recorded
    /\ news_count = 2 /\ Len(prev.new) = 1
    /\ new_news = <<>>
    /\ prev.new[1] \in Records(duplicate_news)

-----------------------------------------------------------------------------
(* Properties of fetch_article_details (SpecDetails) *)

Before == new_news[1]
After == detailed_news[1]

\* C11: fetch_article_details never replaces an image_url that was non-empty
\* before the call, whatever the detail page holds; it changes image_url only
\* when it was absent (and an image locator matched), changes summary only
\* when a summary locator of the detail page matched, changes no other field,
\* and leaves the whole record as it was when the detail fetch fails or the
\* record has no link.
C11_ImageKeptSummaryOnlyOnMatch ==
    pc = "detailed" =>
        /\ Truthy(Before.image_url) => After.image_url = Before.image_url
        /\ After.image_url # Before.image_url =>
              /\ Before.image_url \in {None, Empty}
              /\ detail_page.image.matched
              /\ mode = "fetched"
        /\ After.summary # Before.summary =>
              /\ detail_page.summary.matched
              /\ After.summary = detail_page.summary.text
              /\ mode = "fetched"
        /\ [After EXCEPT !.summary = Before.summary, !.image_url = Before.image_url] = Before
        /\ mode \in {"fetch failed", "no link"} => After = Before

\* A record with an image of the listing, enriched from a detail page that
\* holds another image: the summary is the detail page's, the image is kept
C11_Witness ==
    /\ pc = "detailed" /\ mode = "fetched"
    /\ Before.image_url = <<"https://", "cdn/i.jpg">>
    /\ detail_page.image = Image(TRUE, <<"https://", "cdn/og.jpg">>, None, None)
    /\ After.image_url = Before.image_url
    /\ After.summary = <<"detalle">> /\ Before.summary # After.summary

====
